---- MODULE Spec2Model ----
(***************************************************************************)
(* A model of the C boundary layer of the regex engine (regex-capi,        *)
(* src/regex-capi/src/rure.rs): pattern compilation and its error slot,    *)
(* the match iterator, capture buffers, the capture-name iterator and the  *)
(* pattern set.  The engine behind the layer (find_at, read_captures_at,   *)
(* capture_names, many_matches_at, the builders) lives outside this file;  *)
(* it is modelled as a small backtracking matcher over a two-letter        *)
(* alphabet.  Offsets are 0-based byte offsets, as in the code; the byte   *)
(* at offset i of a haystack is text[i + 1].                               *)
(***************************************************************************)
EXTENDS Integers, Sequences, FiniteSets, TLC

VARIABLES
    pat,         \* the compiled pattern behind the Regex handle (sequence of atoms)
    text,        \* the haystack passed to every call
    it,          \* Iter { last_end, last_match }
    pc,          \* "idle", or the function whose (recursive) call is pending
    arg_null,    \* whether match_info of the pending rure_iter_next call is null
    match_info,  \* the caller's rure_match
    caps,        \* Captures(Vec<Option<usize>>), the caller's capture buffer
    ret,         \* return value of the last completed iterator call
    found,       \* result of the engine search made by the last body execution
    searched_at, \* the offset that search started from (-1: no search made)
    emitted,     \* history: the (start, end) pairs handed to the caller so far
    searches,    \* history: engine searches made by the current top-level call
    calls,       \* history: number of top-level iterator calls made
    error,       \* the caller's error slot
    handle,      \* what the last rure_compile / rure_compile_set returned
    last,        \* history: the arguments of that call and the slot before it
    set,         \* the RegexSet behind the pattern-set handle
    matches,     \* the caller's bool array handed to rure_set_matches
    last_set,    \* history: start, the array before and the value returned
    nit,         \* IterCaptureNames { capture_names (as a position), name_ptrs }
    heap,        \* the C strings allocated so far; a pointer is an index, 0 is null
    out,         \* the caller's char * that capture_name points to
    log,         \* history: one record per rure_iter_capture_names_next call
    free_log     \* history: what rure_iter_capture_names_free released, in order

iterVars == <<pat, text, it, pc, arg_null, match_info, caps, ret, found,
              searched_at, emitted, searches, calls>>

compVars == <<error, handle, last>>
setVars == <<set, matches, last_set>>
nameVars == <<nit, heap, out, log, free_log>>

----------------------------------------------------------------------------
(* Bounds of the model. *)
MaxLen == 3        \* longest haystack
MaxAtoms == 2      \* longest pattern, in atoms
MaxCalls == 4      \* top-level iterator calls per behaviour
MaxPatLen == 2     \* longest pattern given to rure_compile, in bytes
MaxPats == 2       \* most patterns in a pattern set
MaxNameCalls == 5  \* rure_iter_capture_names_next calls per behaviour

Chars == {"a", "b"}

(* Option<T> *)
None == [some |-> FALSE, val |-> 0]
Some(v) == [some |-> TRUE, val |-> v]
Pair(s, e) == [start |-> s, end |-> e]

----------------------------------------------------------------------------
(* The engine.  A pattern is a sequence of atoms; an atom is a letter, a   *)
(* greedy starred letter or the end anchor, optionally wrapped in a        *)
(* capture group (name <<>>: the group is unnamed).                        *)
Atom(ch, q, cap, name) == [ch |-> ch, q |-> q, cap |-> cap, name |-> name]

(* Group names, as bytes: "x" and "yr" *)
Names == {<<120>>, <<121, 114>>}

PlainAtoms ==
    {Atom(c, q, FALSE, <<>>) : c \in Chars, q \in {"one", "star"}}
        \cup {Atom("$", "eol", FALSE, <<>>)}

GroupAtoms ==
    {Atom(c, q, TRUE, n) : c \in Chars, q \in {"one", "star"}, n \in Names \cup {<<>>}}

SeqsUpTo(S, n) == UNION {[1..k -> S] : k \in 0..n}

Texts == SeqsUpTo(Chars, MaxLen)

RECURSIVE MaxRun(_, _, _)
MaxRun(ch, t, pos) ==
    IF pos < Len(t) /\ t[pos + 1] = ch THEN 1 + MaxRun(ch, t, pos + 1) ELSE 0

Fail == [ok |-> FALSE, path |-> <<>>]

RECURSIVE Run(_, _, _, _)
RECURSIVE TryStar(_, _, _, _, _)
(* Match atoms i.. of p at offset pos; path holds the offset after each atom. *)
Run(p, i, t, pos) ==
    IF i > Len(p) THEN [ok |-> TRUE, path |-> <<>>]
    ELSE CASE p[i].q = "one" ->
                IF pos < Len(t) /\ t[pos + 1] = p[i].ch
                THEN LET r == Run(p, i + 1, t, pos + 1)
                     IN IF r.ok THEN [ok |-> TRUE, path |-> <<pos + 1>> \o r.path]
                        ELSE Fail
                ELSE Fail
           [] p[i].q = "star" -> TryStar(p, i, t, pos, MaxRun(p[i].ch, t, pos))
           [] p[i].q = "eol" ->
                IF pos = Len(t)
                THEN LET r == Run(p, i + 1, t, pos)
                     IN IF r.ok THEN [ok |-> TRUE, path |-> <<pos>> \o r.path]
                        ELSE Fail
                ELSE Fail

TryStar(p, i, t, pos, k) ==
    LET r == Run(p, i + 1, t, pos + k)
    IN IF r.ok THEN [ok |-> TRUE, path |-> <<pos + k>> \o r.path]
       ELSE IF k = 0 THEN Fail
       ELSE TryStar(p, i, t, pos, k - 1)

MatchEnd(p, t, s) ==
    LET r == Run(p, 1, t, s)
    IN IF Len(p) = 0 THEN s ELSE r.path[Len(p)]

(* Leftmost match starting at or after start. *)
find_at(p, t, start) ==
    LET starts == {s \in start..Len(t) : Run(p, 1, t, s).ok}
    IN IF starts = {} THEN None
       ELSE LET s == CHOOSE x \in starts : \A y \in starts : x <= y
            IN Some(Pair(s, MatchEnd(p, t, s)))

is_match_at(p, t, start) == find_at(p, t, start).some

(* Group 0 is the whole match; group j is the j-th capturing atom. *)
GroupAtomsOf(p) == {k \in 1..Len(p) : p[k].cap}
captures_len(p) == 1 + Cardinality(GroupAtomsOf(p))

RECURSIVE NthGroupAtom(_, _, _)
NthGroupAtom(p, j, k) ==
    IF p[k].cap THEN (IF j = 1 THEN k ELSE NthGroupAtom(p, j - 1, k + 1))
    ELSE NthGroupAtom(p, j, k + 1)

capture_names(p) ==
    [g \in 1..captures_len(p) |->
        IF g = 1 THEN None
        ELSE LET n == p[NthGroupAtom(p, g - 1, 1)].name
             IN IF n = <<>> THEN None ELSE Some(n)]

(* Fills the slots it is given (never resizes them) and returns the bounds *)
(* of the whole match.                                                     *)
read_captures_at(slots, p, t, start) ==
    LET m == find_at(p, t, start)
        s == m.val.start
        path == Run(p, 1, t, s).path
        SlotVal(i) ==
            LET g == (i - 1) \div 2
                isEnd == (i - 1) % 2 = 1
            IN IF g = 0 THEN Some(IF isEnd THEN m.val.end ELSE s)
               ELSE IF g >= captures_len(p) THEN None
               ELSE LET k == NthGroupAtom(p, g, 1)
                    IN Some(IF isEnd THEN path[k]
                            ELSE IF k = 1 THEN s ELSE path[k - 1])
    IN [slots |-> [i \in 1..Len(slots) |-> IF m.some THEN SlotVal(i) ELSE None],
        m |-> m]

----------------------------------------------------------------------------
(* The match iterator. *)

(* rure_iter_new *)
rure_iter_new == [last_end |-> 0, last_match |-> None]

(* rure_captures_new that forgets the factor two *)
rure_captures_new_OnePerGroup(p) == [i \in 1..captures_len(p) |-> None]

(* rure_captures_new: 2 * captures_len unset slots *)
rure_captures_new(p) == [i \in 1..(2 * captures_len(p)) |-> None]

(* rure_captures_len *)
rure_captures_len(c) == Len(c) \div 2

(* rure_captures_at: the pair of group i when both of its slots are set *)
rure_captures_at(c, i) ==
    IF c[i * 2 + 1].some /\ c[i * 2 + 2].some
    THEN Some(Pair(c[i * 2 + 1].val, c[i * 2 + 2].val))
    ELSE None

(* rure_iter_next that hands every empty match to the caller *)
IterNextBody_NoSuppress(i, p, t) ==
    IF i.last_end > Len(t)
    THEN [kind |-> "false", it |-> i, m |-> None, searched |-> FALSE]
    ELSE LET m == find_at(p, t, i.last_end)
             s == m.val.start
             e == m.val.end
         IN IF ~m.some
            THEN [kind |-> "false", it |-> i, m |-> m, searched |-> TRUE]
            ELSE IF s = e
            THEN [kind |-> "true",
                  it |-> [last_end |-> i.last_end + 1, last_match |-> Some(e)],
                  m |-> m, searched |-> TRUE]
            ELSE [kind |-> "true",
                  it |-> [last_end |-> e, last_match |-> Some(e)],
                  m |-> m, searched |-> TRUE]

(* rure_iter_next that does not move last_end past an empty match *)
IterNextBody_NoProgress(i, p, t) ==
    IF i.last_end > Len(t)
    THEN [kind |-> "false", it |-> i, m |-> None, searched |-> FALSE]
    ELSE LET m == find_at(p, t, i.last_end)
             s == m.val.start
             e == m.val.end
         IN IF ~m.some
            THEN [kind |-> "false", it |-> i, m |-> m, searched |-> TRUE]
            ELSE IF s = e
            THEN IF Some(e) = i.last_match
                 THEN [kind |-> "recurse", it |-> i, m |-> m,
                       searched |-> TRUE]
                 ELSE [kind |-> "true",
                       it |-> [i EXCEPT !.last_match = Some(e)],
                       m |-> m, searched |-> TRUE]
            ELSE [kind |-> "true",
                  it |-> [last_end |-> e, last_match |-> Some(e)],
                  m |-> m, searched |-> TRUE]

(* One execution of the body of rure_iter_next.  kind is "false" or "true" *)
(* (the value returned) or "recurse" (the function calls itself with the   *)
(* same arguments); m is the engine's answer, searched whether it was asked.*)
IterNextBody(i, p, t) ==
    IF i.last_end > Len(t)
    THEN [kind |-> "false", it |-> i, m |-> None, searched |-> FALSE]
    ELSE LET m == find_at(p, t, i.last_end)
             s == m.val.start
             e == m.val.end
         IN IF ~m.some
            THEN [kind |-> "false", it |-> i, m |-> m, searched |-> TRUE]
            ELSE IF s = e
            THEN LET i1 == [i EXCEPT !.last_end = @ + 1]
                 IN IF Some(e) = i1.last_match
                    THEN [kind |-> "recurse", it |-> i1, m |-> m,
                          searched |-> TRUE]
                    ELSE [kind |-> "true",
                          it |-> [i1 EXCEPT !.last_match = Some(e)],
                          m |-> m, searched |-> TRUE]
            ELSE [kind |-> "true",
                  it |-> [last_end |-> e, last_match |-> Some(e)],
                  m |-> m, searched |-> TRUE]

(* rure_iter_next_captures that does not record the end of the match it *)
(* returns                                                              *)
IterNextCapturesBody_NoRecord(i, slots, p, t) ==
    IF i.last_end > Len(t)
    THEN [kind |-> "false", it |-> i, m |-> None, searched |-> FALSE,
          slots |-> slots]
    ELSE LET rc == read_captures_at(slots, p, t, i.last_end)
             s == rc.m.val.start
             e == rc.m.val.end
         IN IF ~rc.m.some
            THEN [kind |-> "false", it |-> i, m |-> rc.m, searched |-> TRUE,
                  slots |-> rc.slots]
            ELSE IF s = e
            THEN LET i1 == [i EXCEPT !.last_end = @ + 1]
                 IN IF Some(e) = i1.last_match
                    THEN [kind |-> "recurse", it |-> i1, m |-> rc.m,
                          searched |-> TRUE, slots |-> rc.slots]
                    ELSE [kind |-> "true", it |-> i1,
                          m |-> rc.m, searched |-> TRUE, slots |-> rc.slots]
            ELSE [kind |-> "true",
                  it |-> [i EXCEPT !.last_end = e],
                  m |-> rc.m, searched |-> TRUE, slots |-> rc.slots]

(* One execution of the body of rure_iter_next_captures; slots is the      *)
(* capture buffer as the engine leaves it.                                 *)
IterNextCapturesBody(i, slots, p, t) ==
    IF i.last_end > Len(t)
    THEN [kind |-> "false", it |-> i, m |-> None, searched |-> FALSE,
          slots |-> slots]
    ELSE LET rc == read_captures_at(slots, p, t, i.last_end)
             s == rc.m.val.start
             e == rc.m.val.end
         IN IF ~rc.m.some
            THEN [kind |-> "false", it |-> i, m |-> rc.m, searched |-> TRUE,
                  slots |-> rc.slots]
            ELSE IF s = e
            THEN LET i1 == [i EXCEPT !.last_end = @ + 1]
                 IN IF Some(e) = i1.last_match
                    THEN [kind |-> "recurse", it |-> i1, m |-> rc.m,
                          searched |-> TRUE, slots |-> rc.slots]
                    ELSE [kind |-> "true",
                          it |-> [i1 EXCEPT !.last_match = Some(e)],
                          m |-> rc.m, searched |-> TRUE, slots |-> rc.slots]
            ELSE [kind |-> "true",
                  it |-> [last_end |-> e, last_match |-> Some(e)],
                  m |-> rc.m, searched |-> TRUE, slots |-> rc.slots]

Finish(r, base, fn) ==
    /\ it' = r.it
    /\ found' = r.m
    /\ searched_at' = IF r.searched THEN it.last_end ELSE -1
    /\ searches' = base + (IF r.searched THEN 1 ELSE 0)
    /\ pc' = IF r.kind = "recurse" THEN fn ELSE "idle"
    /\ ret' = IF r.kind = "recurse" THEN ret ELSE (r.kind = "true")
    /\ emitted' = IF r.kind = "true" THEN Append(emitted, r.m.val) ELSE emitted

IterNextRun(nullArg, base) ==
    LET r == IterNextBody(it, pat, text)
    IN /\ Finish(r, base, "rure_iter_next")
       /\ arg_null' = nullArg
       /\ match_info' = IF r.kind = "true" /\ ~nullArg THEN r.m.val
                        ELSE match_info
       /\ UNCHANGED <<pat, text, caps>>

(* rure_iter_next: called by the caller (pc = "idle") or by itself *)
rure_iter_next ==
    \/ /\ pc = "idle"
       /\ calls < MaxCalls
       /\ calls' = calls + 1
       /\ \E nullArg \in BOOLEAN : IterNextRun(nullArg, 0)
    \/ /\ pc = "rure_iter_next"
       /\ UNCHANGED calls
       /\ IterNextRun(arg_null, searches)

IterNextCapturesRun(base) ==
    LET r == IterNextCapturesBody(it, caps, pat, text)
    IN /\ Finish(r, base, "rure_iter_next_captures")
       /\ caps' = r.slots
       /\ UNCHANGED <<pat, text, arg_null, match_info>>

(* rure_iter_next_captures: called by the caller or by itself *)
rure_iter_next_captures ==
    \/ /\ pc = "idle"
       /\ calls < MaxCalls
       /\ calls' = calls + 1
       /\ IterNextCapturesRun(0)
    \/ /\ pc = "rure_iter_next_captures"
       /\ UNCHANGED calls
       /\ IterNextCapturesRun(searches)

(* rure_find_captures *)
rure_find_captures ==
    /\ pc = "idle"
    /\ \E start \in 0..Len(text) :
          caps' = read_captures_at(caps, pat, text, start).slots
    /\ UNCHANGED <<pat, text, it, pc, arg_null, match_info, ret, found,
                   searched_at, emitted, searches, calls>>

----------------------------------------------------------------------------
(* Compilation and the error slot. *)

(* Pattern bytes: 'a', '*', a lone continuation byte, a two-byte lead. *)
Bytes == {97, 42, 128, 195}

(* The patterns given to rure_compile_set: "a", "*", a lone continuation   *)
(* byte, and "a" followed by a lead byte that nothing follows.             *)
SetBytePatterns == {<<97>>, <<42>>, <<128>>, <<97, 195>>}

(* Options::default *)
DefaultOptions == [size_limit |-> 10 * (2 ^ 20), dfa_size_limit |-> 2 * (2 ^ 20)]

NullOptions == [null |-> TRUE, size_limit |-> 0, dfa_size_limit |-> 0]

(* rure_options_new *)
rure_options_new ==
    [null |-> FALSE, size_limit |-> DefaultOptions.size_limit,
     dfa_size_limit |-> DefaultOptions.dfa_size_limit]

(* rure_options_size_limit *)
rure_options_size_limit(options, limit) == [options EXCEPT !.size_limit = limit]

OptionValues ==
    {NullOptions, rure_options_new, rure_options_size_limit(rure_options_new, 0)}

(* Error::new(kind) *)
ErrorNew(kind, offset, msg) == [kind |-> kind, offset |-> offset, msg |-> msg]
ErrorNone == ErrorNew("None", 0, "")

(* str::from_utf8 on bytes below 0xE0: the offset up to which the bytes    *)
(* are valid, and whether that is all of them.                             *)
RECURSIVE ValidUpTo(_, _)
ValidUpTo(b, i) ==
    IF i >= Len(b) THEN i
    ELSE IF b[i + 1] < 128 THEN ValidUpTo(b, i + 1)
    ELSE IF /\ b[i + 1] >= 194 /\ b[i + 1] <= 223
            /\ i + 1 < Len(b)
            /\ b[i + 2] >= 128 /\ b[i + 2] <= 191
         THEN ValidUpTo(b, i + 2)
    ELSE i

from_utf8(b) == [ok |-> ValidUpTo(b, 0) = Len(b), valid_up_to |-> ValidUpTo(b, 0)]

(* The characters of a valid string. *)
RECURSIVE Decode(_, _)
Decode(b, i) ==
    IF i >= Len(b) THEN <<>>
    ELSE IF b[i + 1] < 128 THEN <<b[i + 1]>> \o Decode(b, i + 1)
    ELSE <<(b[i + 1] - 192) * 64 + (b[i + 2] - 128)>> \o Decode(b, i + 2)

(* The engine's builders: a repetition needs something to repeat, and the  *)
(* compiled program must fit the size limit.                               *)
SyntaxOk(cs) == \A k \in 1..Len(cs) : cs[k] = 42 => k > 1
ProgSize(cs) == Len(cs) + 1
EngineSizeLimit(options) ==
    IF options.null THEN DefaultOptions.size_limit ELSE options.size_limit

builder_compile(cs, options) ==
    IF ~SyntaxOk(cs) THEN [ok |-> FALSE, err |-> "Syntax"]
    ELSE IF ProgSize(cs) > EngineSizeLimit(options)
    THEN [ok |-> FALSE, err |-> "CompiledTooBig"]
    ELSE [ok |-> TRUE, err |-> ""]

builder_build(pats, options) ==
    IF \E k \in 1..Len(pats) : ~SyntaxOk(pats[k])
    THEN [ok |-> FALSE, err |-> "Syntax"]
    ELSE IF \E k \in 1..Len(pats) : ProgSize(pats[k]) > EngineSizeLimit(options)
    THEN [ok |-> FALSE, err |-> "CompiledTooBig"]
    ELSE [ok |-> TRUE, err |-> ""]

NullHandle == [null |-> TRUE, re |-> <<>>, pattern_count |-> 0]

(* rure_compile that reports undecodable bytes as a compile failure *)
rure_compile_WrongKind(pattern, options, error_null, slot) ==
    LET u == from_utf8(pattern)
    IN IF ~u.ok
       THEN [handle |-> NullHandle,
             error |-> IF error_null THEN slot ELSE ErrorNew("Regex", 0, "Syntax")]
       ELSE LET b == builder_compile(Decode(pattern, 0), options)
            IN IF b.ok
               THEN [handle |-> [null |-> FALSE, re |-> <<Decode(pattern, 0)>>,
                                 pattern_count |-> 1],
                     error |-> slot]
               ELSE [handle |-> NullHandle,
                     error |-> IF error_null THEN slot
                               ELSE ErrorNew("Regex", 0, b.err)]

(* rure_compile: the handle returned and the content of the error slot     *)
(* after the call (slot: its content before; error_null: no slot given).   *)
rure_compile(pattern, options, error_null, slot) ==
    LET u == from_utf8(pattern)
    IN IF ~u.ok
       THEN [handle |-> NullHandle,
             error |-> IF error_null THEN slot ELSE ErrorNew("Str", u.valid_up_to, "")]
       ELSE LET b == builder_compile(Decode(pattern, 0), options)
            IN IF b.ok
               THEN [handle |-> [null |-> FALSE, re |-> <<Decode(pattern, 0)>>,
                                 pattern_count |-> 1],
                     error |-> slot]
               ELSE [handle |-> NullHandle,
                     error |-> IF error_null THEN slot
                               ELSE ErrorNew("Regex", 0, b.err)]

(* The first pattern that is not valid UTF-8, 0 if there is none. *)
FirstInvalid(patterns) ==
    LET bad == {k \in 1..Len(patterns) : ~from_utf8(patterns[k]).ok}
    IN IF bad = {} THEN 0 ELSE CHOOSE k \in bad : \A j \in bad : k <= j

(* rure_compile_set *)
rure_compile_set(patterns, options, error_null, slot) ==
    LET k == FirstInvalid(patterns)
    IN IF k # 0
       THEN [handle |-> NullHandle,
             error |-> IF error_null THEN slot
                       ELSE ErrorNew("Str", from_utf8(patterns[k]).valid_up_to, "")]
       ELSE LET pats == [j \in 1..Len(patterns) |-> Decode(patterns[j], 0)]
                b == builder_build(pats, options)
            IN IF b.ok
               THEN [handle |-> [null |-> FALSE, re |-> pats,
                                 pattern_count |-> Len(pats)],
                     error |-> slot]
               ELSE [handle |-> NullHandle,
                     error |-> IF error_null THEN slot
                               ELSE ErrorNew("Regex", 0, b.err)]

Compile ==
    \E pattern \in SeqsUpTo(Bytes, MaxPatLen), options \in OptionValues,
       error_null \in BOOLEAN :
        LET r == rure_compile(pattern, options, error_null, error)
        IN /\ error' = r.error
           /\ handle' = r.handle
           /\ last' = [fn |-> "rure_compile", patterns |-> <<pattern>>,
                       options |-> options, error_null |-> error_null,
                       prior |-> error]

CompileSet ==
    \E patterns \in SeqsUpTo(SetBytePatterns, MaxPats),
       options \in OptionValues, error_null \in BOOLEAN :
        LET r == rure_compile_set(patterns, options, error_null, error)
        IN /\ error' = r.error
           /\ handle' = r.handle
           /\ last' = [fn |-> "rure_compile_set", patterns |-> patterns,
                       options |-> options, error_null |-> error_null,
                       prior |-> error]

NoCall == [fn |-> "", patterns |-> <<>>, options |-> NullOptions,
           error_null |-> TRUE, prior |-> ErrorNone]

CompIdle == error = ErrorNone /\ handle = NullHandle /\ last = NoCall

IterIdle ==
    /\ pat = <<>> /\ it = rure_iter_new /\ pc = "idle"
    /\ arg_null = FALSE /\ match_info = Pair(0, 0) /\ caps = <<>>
    /\ ret = FALSE /\ found = None /\ searched_at = -1 /\ emitted = <<>>
    /\ searches = 0 /\ calls = 0

----------------------------------------------------------------------------
(* The pattern set. *)

(* The engine's multi-match primitive on a slice of pattern_count entries: *)
(* entries of matching patterns become true, the others are left as they   *)
(* are or set to false.  It returns whether any pattern matched.           *)
many_matches_at(slice, pats, t, start) ==
    {[matches |-> m, ret |-> \E i \in 1..Len(pats) : is_match_at(pats[i], t, start)] :
        m \in {m2 \in [1..Len(slice) -> BOOLEAN] :
                  \A i \in 1..Len(slice) :
                      IF is_match_at(pats[i], t, start) THEN m2[i]
                      ELSE m2[i] \in {slice[i], FALSE}}}

(* rure_set_matches that hands the caller's array to the engine as it is *)
rure_set_matches_NoClear(re, t, start, buf) ==
    LET n == re.pattern_count
        slice == SubSeq(buf, 1, n)
    IN {[matches |-> o.matches \o SubSeq(buf, n + 1, Len(buf)),
         ret |-> o.ret] : o \in many_matches_at(slice, re.re, t, start)}

(* rure_set_matches: the possible contents of the caller's array after the *)
(* call, with the value returned.                                          *)
rure_set_matches(re, t, start, buf) ==
    LET n == re.pattern_count
        cleared == [i \in 1..n |-> FALSE]
    IN {[matches |-> o.matches \o SubSeq(buf, n + 1, Len(buf)),
         ret |-> o.ret] : o \in many_matches_at(cleared, re.re, t, start)}

(* rure_set_len *)
rure_set_len(re) == re.pattern_count

(* rure_is_match *)
rure_is_match(re, t, start) == is_match_at(re, t, start)

SetMatches ==
    /\ \E start \in 0..Len(text) :
         \E o \in rure_set_matches(set, text, start, matches) :
            /\ matches' = o.matches
            /\ last_set' = [called |-> TRUE, start |-> start,
                            before |-> matches, ret |-> o.ret]
    /\ UNCHANGED <<set, text>>

(* The patterns sets are built from: a, b, ab, b$ *)
SetPool ==
    {<<Atom("a", "one", FALSE, <<>>)>>,
     <<Atom("b", "one", FALSE, <<>>)>>,
     <<Atom("a", "one", FALSE, <<>>), Atom("b", "one", FALSE, <<>>)>>,
     <<Atom("b", "one", FALSE, <<>>), Atom("$", "eol", FALSE, <<>>)>>}

NoSetCall == [called |-> FALSE, start |-> 0, before |-> <<>>, ret |-> FALSE]

SetIdle == set = NullHandle /\ matches = <<>> /\ last_set = NoSetCall

----------------------------------------------------------------------------
(* The capture-name iterator. *)

(* rure_iter_capture_names_new *)
rure_iter_capture_names_new == [alive |-> TRUE, pos |-> 0, name_ptrs |-> <<>>]

(* CString::new: fails on an interior NUL, else appends the terminator *)
CStringNew(bytes) ==
    IF \E k \in 1..Len(bytes) : bytes[k] = 0 THEN [ok |-> FALSE, buf |-> <<>>]
    ELSE [ok |-> TRUE, buf |-> bytes \o <<0>>]

(* The string a C caller reads at a pointer: the bytes before the first NUL *)
RECURSIVE UpToNul(_, _)
UpToNul(buf, k) ==
    IF k > Len(buf) \/ buf[k] = 0 THEN <<>> ELSE <<buf[k]>> \o UpToNul(buf, k + 1)

CStr(hp, ptr) == UpToNul(hp[ptr].buf, 1)

(* rure_iter_capture_names_next that hands out null for an unnamed group *)
rure_iter_capture_names_next_NullName(itn, hp, names, o, null_arg) ==
    IF null_arg THEN [ret |-> FALSE, it |-> itn, heap |-> hp, out |-> o]
    ELSE IF itn.pos >= Len(names)
    THEN [ret |-> FALSE, it |-> itn, heap |-> hp, out |-> o]
    ELSE LET val == names[itn.pos + 1]
             it1 == [itn EXCEPT !.pos = @ + 1]
         IN IF ~val.some
            THEN [ret |-> TRUE, it |-> it1, heap |-> hp, out |-> 0]
            ELSE LET cs == CStringNew(val.val)
                     ptr == Len(hp) + 1
                 IN IF ~cs.ok
                    THEN [ret |-> FALSE, it |-> it1, heap |-> hp, out |-> o]
                    ELSE [ret |-> TRUE,
                          it |-> [it1 EXCEPT !.name_ptrs = Append(@, ptr)],
                          heap |-> Append(hp, [buf |-> cs.buf, frees |-> 0]),
                          out |-> ptr]

(* rure_iter_capture_names_next: names is the engine's sequence of         *)
(* optional group names, o the caller's pointer before the call.           *)
rure_iter_capture_names_next(itn, hp, names, o, null_arg) ==
    IF null_arg THEN [ret |-> FALSE, it |-> itn, heap |-> hp, out |-> o]
    ELSE IF itn.pos >= Len(names)
    THEN [ret |-> FALSE, it |-> itn, heap |-> hp, out |-> o]
    ELSE LET val == names[itn.pos + 1]
             cn == IF val.some THEN val.val ELSE <<>>
             it1 == [itn EXCEPT !.pos = @ + 1]
             cs == CStringNew(cn)
             ptr == Len(hp) + 1
         IN IF ~cs.ok
            THEN [ret |-> FALSE, it |-> it1, heap |-> hp, out |-> o]
            ELSE [ret |-> TRUE,
                  it |-> [it1 EXCEPT !.name_ptrs = Append(@, ptr)],
                  heap |-> Append(hp, [buf |-> cs.buf, frees |-> 0]),
                  out |-> ptr]

RECURSIVE PopAll(_, _, _)
(* while let Some(ptr) = it.name_ptrs.pop() { CString::from_raw(ptr); } *)
PopAll(ptrs, hp, released) ==
    IF ptrs = <<>> THEN [heap |-> hp, released |-> released]
    ELSE LET ptr == ptrs[Len(ptrs)]
         IN PopAll(SubSeq(ptrs, 1, Len(ptrs) - 1),
                   [hp EXCEPT ![ptr].frees = @ + 1],
                   Append(released, ptr))

(* In the release order 0 stands for Box::from_raw(it), the iterator itself. *)

(* rure_iter_capture_names_free that releases only the string handed out last *)
rure_iter_capture_names_free_PopOnce(itn, hp) ==
    LET r == IF itn.name_ptrs = <<>> THEN [heap |-> hp, released |-> <<>>]
             ELSE PopAll(<<itn.name_ptrs[Len(itn.name_ptrs)]>>, hp, <<>>)
    IN [it |-> [alive |-> FALSE, pos |-> itn.pos, name_ptrs |-> <<>>],
        heap |-> r.heap,
        released |-> Append(r.released, 0)]

(* rure_iter_capture_names_free: the strings, then the iterator *)
rure_iter_capture_names_free(itn, hp) ==
    LET r == PopAll(itn.name_ptrs, hp, <<>>)
    IN [it |-> [alive |-> FALSE, pos |-> itn.pos, name_ptrs |-> <<>>],
        heap |-> r.heap,
        released |-> Append(r.released, 0)]

NamesNext ==
    /\ nit.alive
    /\ Len(log) < MaxNameCalls
    /\ \E null_arg \in BOOLEAN :
          LET r == rure_iter_capture_names_next(nit, heap, capture_names(pat),
                                               out, null_arg)
          IN /\ nit' = r.it
             /\ heap' = r.heap
             /\ out' = r.out
             /\ log' = Append(log, [null_arg |-> null_arg, ret |-> r.ret,
                                    out_before |-> out, out_after |-> r.out,
                                    pos_before |-> nit.pos, pos_after |-> r.it.pos])
    /\ UNCHANGED <<pat, free_log>>

NamesFree ==
    /\ nit.alive
    /\ LET r == rure_iter_capture_names_free(nit, heap)
       IN /\ nit' = r.it
          /\ heap' = r.heap
          /\ free_log' = r.released
    /\ UNCHANGED <<pat, out, log>>

(* Patterns whose names are enumerated: no two groups share a name. *)
NameAtoms ==
    {Atom("a", "one", FALSE, <<>>)}
        \cup {a \in GroupAtoms : a.ch = "a" /\ a.q = "one"}

NamePatterns ==
    {p \in SeqsUpTo(NameAtoms, MaxAtoms) :
        \A j, k \in 1..Len(p) :
            (j # k /\ p[j].name # <<>>) => p[j].name # p[k].name}

NamesIdle ==
    /\ nit = [alive |-> FALSE, pos |-> 0, name_ptrs |-> <<>>]
    /\ heap = <<>> /\ out = 0 /\ log = <<>> /\ free_log = <<>>

(* Patterns the match iterator is run on: no two groups share a name. *)
IterAtoms ==
    {a \in PlainAtoms : a.ch = "b" => a.q = "one"}
        \cup {a \in GroupAtoms : a.name = <<>> /\ a.ch = "a"}

IterPatterns == SeqsUpTo(IterAtoms, MaxAtoms)

InitIter ==
    /\ pat \in IterPatterns
    /\ text \in Texts
    /\ it = rure_iter_new
    /\ pc = "idle"
    /\ arg_null = FALSE
    /\ match_info = Pair(0, 0)
    /\ caps = rure_captures_new(pat)
    /\ ret = FALSE
    /\ found = None
    /\ searched_at = -1
    /\ emitted = <<>>
    /\ searches = 0
    /\ calls = 0
    /\ CompIdle /\ SetIdle /\ NamesIdle

NextIter ==
    \/ rure_iter_next /\ UNCHANGED <<compVars, setVars, nameVars>>
    \/ rure_iter_next_captures /\ UNCHANGED <<compVars, setVars, nameVars>>
    \/ rure_find_captures /\ UNCHANGED <<compVars, setVars, nameVars>>

InitCompile == CompIdle /\ IterIdle /\ text = <<>> /\ SetIdle /\ NamesIdle

NextCompile ==
    \/ Compile /\ UNCHANGED <<iterVars, setVars, nameVars>>
    \/ CompileSet /\ UNCHANGED <<iterVars, setVars, nameVars>>

InitSet ==
    /\ \E pats \in SeqsUpTo(SetPool, MaxPats) :
          set = [null |-> FALSE, re |-> pats, pattern_count |-> Len(pats)]
    /\ text \in Texts
    /\ \E slack \in BOOLEAN :
          matches \in [1..(set.pattern_count + (IF slack THEN 1 ELSE 0)) -> BOOLEAN]
    /\ last_set = NoSetCall
    /\ IterIdle /\ CompIdle /\ NamesIdle

NextSet ==
    SetMatches /\ UNCHANGED <<pat, it, pc, arg_null, match_info, caps, ret,
                              found, searched_at, emitted, searches, calls,
                              compVars, nameVars>>

IterRest == <<text, it, pc, arg_null, match_info, caps, ret, found,
              searched_at, emitted, searches, calls>>

InitNames ==
    /\ pat \in NamePatterns
    /\ nit = rure_iter_capture_names_new
    /\ heap = <<>> /\ out = 0 /\ log = <<>> /\ free_log = <<>>
    /\ text = <<>> /\ it = rure_iter_new /\ pc = "idle"
    /\ arg_null = FALSE /\ match_info = Pair(0, 0) /\ caps = <<>>
    /\ ret = FALSE /\ found = None /\ searched_at = -1 /\ emitted = <<>>
    /\ searches = 0 /\ calls = 0
    /\ CompIdle /\ SetIdle

NextNames ==
    \/ NamesNext /\ UNCHANGED <<IterRest, compVars, setVars>>
    \/ NamesFree /\ UNCHANGED <<IterRest, compVars, setVars>>

vars == <<iterVars, compVars, setVars, nameVars>>

SpecIter == InitIter /\ [][NextIter]_vars

SpecCompile == InitCompile /\ [][NextCompile]_vars

SpecSet == InitSet /\ [][NextSet]_vars

SpecNames == InitNames /\ [][NextNames]_vars

----------------------------------------------------------------------------
(* Properties of the match iterator. *)

AStar == <<Atom("a", "star", FALSE, <<>>)>>
Eol == <<Atom("$", "eol", FALSE, <<>>)>>

IsEmpty(m) == m.start = m.end

(* A step made by rure_iter_next or rure_iter_next_captures. *)
AdvanceStep == calls' # calls \/ pc # "idle"

(* C1: an empty match the engine reports at the end offset of the match    *)
(* emitted last is never emitted; for a* on "aa" the iterator emits (0,2)  *)
(* and nothing else, and every advance after the first returns false.      *)
C1_EmptyMatchSuppressed ==
    /\ \A k \in 2..Len(emitted) :
          ~(IsEmpty(emitted[k]) /\ emitted[k].end = emitted[k - 1].end)
    /\ (pat = AStar /\ text = <<"a", "a">>) =>
          /\ emitted \in {<<>>, <<Pair(0, 2)>>}
          /\ (calls >= 1 /\ pc = "idle") => emitted = <<Pair(0, 2)>>
          /\ (calls >= 2 /\ pc = "idle") => ret = FALSE

(* The engine has just answered with an empty match at the end of the      *)
(* match emitted last, and the iterator has not emitted it.                *)
C1_Witness ==
    /\ pat = AStar /\ text = <<"a", "a">>
    /\ pc = "rure_iter_next"
    /\ found = Some(Pair(2, 2))
    /\ emitted = <<Pair(0, 2)>>

(* C2: no (start, end) pair is emitted twice, and last_end never decreases. *)
C2_NoRevisit ==
    [][/\ \A j, k \in 1..Len(emitted') : j # k => emitted'[j] # emitted'[k]
       /\ it'.last_end >= it.last_end]_vars

C2_Witness ==
    /\ Len(emitted) >= 3
    /\ \E k \in 1..Len(emitted) : IsEmpty(emitted[k])
    /\ \E k \in 1..Len(emitted) : ~IsEmpty(emitted[k])

(* C8 (as stated): when the engine answers (s, e), an empty match sets     *)
(* last_end to e + 1 and any other match sets it to e, and an emitted      *)
(* match records last_match = e.                                           *)
C8_StepSetsLastEnd ==
    [][(AdvanceStep /\ found'.some) =>
          /\ IsEmpty(found'.val) => it'.last_end = found'.val.end + 1
          /\ ~IsEmpty(found'.val) => it'.last_end = found'.val.end
          /\ emitted' # emitted => it'.last_match = Some(found'.val.end)]_vars

(* C9: every call returns: each execution of the body either returns or   *)
(* suppresses an empty match, which makes one search and strictly          *)
(* increases last_end, last_end stays within Len(text) + 1, no search      *)
(* starts beyond the end of the haystack, and so one call makes at most    *)
(* Len(text) + 1 searches.                                                 *)
C9_AdvanceTerminates ==
    [][/\ searches' <= Len(text) + 1
       /\ searched_at' <= Len(text)
       /\ pc' # "idle" => /\ it'.last_end > it.last_end
                          /\ it'.last_end <= Len(text) + 1
                          /\ searches' = (IF pc = "idle" THEN 0 ELSE searches) + 1]_vars

(* A call that suppressed an empty match, searched again and returned. *)
C9_Witness == pc = "idle" /\ searches >= 2 /\ calls >= 2

(* C10: from every state the iterator reaches, by any mix of the two       *)
(* functions, the bodies of rure_iter_next and rure_iter_next_captures get *)
(* the same bounds from the engine, return the same value (or both call    *)
(* themselves again) and leave the same last_end and last_match.           *)
C10_SameTransitions ==
    LET a == IterNextBody(it, pat, text)
        b == IterNextCapturesBody(it, caps, pat, text)
    IN a.m = b.m => (a.kind = b.kind /\ a.it = b.it /\ a.searched = b.searched)

(* rure_iter_next_captures has suppressed an empty match after a match was *)
(* emitted.                                                                *)
C10_Witness ==
    /\ pc = "rure_iter_next_captures"
    /\ emitted # <<>>
    /\ found.some

(* C6: a new capture buffer has 2 * G unset slots, rure_captures_len       *)
(* returns G, and the slot count stays 2 * G whatever searches use it.     *)
C6_SlotCountFixed ==
    /\ Len(rure_captures_new(pat)) = 2 * captures_len(pat)
    /\ \A i \in 1..Len(rure_captures_new(pat)) : rure_captures_new(pat)[i] = None
    /\ calls = 0 => rure_captures_len(rure_captures_new(pat)) = captures_len(pat)
    /\ Len(caps) = 2 * captures_len(pat)
    /\ rure_captures_len(caps) = captures_len(pat)

(* The buffer of a pattern with three groups holds a match, all six slots  *)
(* set, after at least two iterator calls.                                 *)
C6_Witness ==
    /\ captures_len(pat) = 3
    /\ calls >= 2
    /\ \A i \in 1..Len(caps) : caps[i].some

----------------------------------------------------------------------------
(* Properties of compilation. *)

SomeInvalid(c) == \E k \in 1..Len(c.patterns) : ~from_utf8(c.patterns[k]).ok

EngineRejects(c) ==
    LET pats == [k \in 1..Len(c.patterns) |-> Decode(c.patterns[k], 0)]
    IN IF c.fn = "rure_compile" THEN ~builder_compile(pats[1], c.options).ok
       ELSE ~builder_build(pats, c.options).ok

(* C3 (as stated): after a call with an error slot the slot holds the      *)
(* outcome of the call whatever it held before: none when a handle is      *)
(* returned, invalid encoding when some pattern is not UTF-8, compile      *)
(* failure when the engine rejects; in both failure cases the handle is    *)
(* null.                                                                   *)
C3_SlotHoldsOutcome ==
    (last.fn # "" /\ ~last.error_null) =>
        /\ ~handle.null => error.kind = "None"
        /\ SomeInvalid(last) => (error.kind = "Str" /\ handle.null)
        /\ (~SomeInvalid(last) /\ EngineRejects(last)) =>
              (error.kind = "Regex" /\ handle.null)

(* C3 (amended): a failing call overwrites the slot with its kind of       *)
(* failure and returns null; a call that returns a handle leaves the slot  *)
(* as it was, so it holds none only if it held none before.                *)
C3_SlotHoldsFailure ==
    (last.fn # "" /\ ~last.error_null) =>
        /\ ~handle.null => error = last.prior
        /\ handle.null <=> (SomeInvalid(last) \/ EngineRejects(last))
        /\ SomeInvalid(last) => (error.kind = "Str" /\ handle.null)
        /\ (~SomeInvalid(last) /\ EngineRejects(last)) =>
              (error.kind = "Regex" /\ handle.null)

(* An encoding failure in the second pattern of a set has overwritten a    *)
(* compile failure left in the slot by an earlier call.                    *)
C3_Witness ==
    /\ last.fn = "rure_compile_set" /\ ~last.error_null
    /\ Len(last.patterns) = 2 /\ FirstInvalid(last.patterns) = 2
    /\ last.prior.kind = "Regex"
    /\ error.kind = "Str" /\ handle.null

----------------------------------------------------------------------------
(* Properties of the pattern set. *)

(* C4: after rure_set_matches on a set of N patterns, matches[i] is true   *)
(* exactly when pattern i matches the haystack at or after start, whatever *)
(* the array held before, and exactly N entries are written.               *)
C4_MatchesExact ==
    last_set.called =>
        /\ rure_set_len(set) = Len(set.re)
        /\ \A i \in 1..Len(set.re) :
              matches[i] = rure_is_match(set.re[i], text, last_set.start)
        /\ Len(matches) = Len(last_set.before)
        /\ \A i \in (Len(set.re) + 1)..Len(matches) :
              matches[i] = last_set.before[i]
        /\ last_set.ret = \E i \in 1..Len(set.re) : matches[i]

(* A stale true entry was cleared while another pattern matched, and the   *)
(* entry beyond the pattern count kept its value.                          *)
C4_Witness ==
    /\ last_set.called
    /\ Len(set.re) = 2 /\ Len(matches) = 3 /\ matches[3]
    /\ \E i \in 1..2 : last_set.before[i] /\ ~matches[i]
    /\ \E i \in 1..2 : matches[i]

----------------------------------------------------------------------------
(* Properties of the capture-name iterator. *)

NonNullCalls == SelectSeq(log, LAMBDA c : ~c.null_arg)
TrueCalls == SelectSeq(log, LAMBDA c : c.ret)

(* C5: for a pattern with G groups the first G calls (made with an output  *)
(* pointer) return true and write the names of groups 0, 1, .., G-1 in     *)
(* order, the empty string and not null for a group without a name, each   *)
(* advancing the name sequence once; every later call returns false and    *)
(* leaves the caller's pointer as it was.                                  *)
C5_NamesInOrder ==
    LET G == captures_len(pat)
        names == capture_names(pat)
    IN \A j \in 1..Len(NonNullCalls) :
          LET c == NonNullCalls[j]
          IN IF j <= G
             THEN /\ c.ret
                  /\ c.out_after # 0
                  /\ CStr(heap, c.out_after) =
                        (IF names[j].some THEN names[j].val ELSE <<>>)
                  /\ c.pos_before = j - 1
                  /\ c.pos_after = j
             ELSE /\ ~c.ret
                  /\ c.out_after = c.out_before
                  /\ c.pos_after = c.pos_before

(* All three names of a pattern with a named and an unnamed group were     *)
(* handed out and two further calls returned false.                        *)
C5_Witness ==
    /\ captures_len(pat) = 3
    /\ capture_names(pat) = <<None, Some(<<121, 114>>), None>>
    /\ Len(NonNullCalls) = 5
    /\ Len(TrueCalls) = 3
    /\ ~log[Len(log)].ret

(* C7: until the iterator is freed every string handed out is allocated    *)
(* and recorded exactly once in name_ptrs, whose length is the number of   *)
(* true returns; freeing releases every recorded string exactly once and   *)
(* then the iterator, leaving no string allocated.                         *)
C7_StringsLiveUntilFree ==
    LET handed == [j \in 1..Len(TrueCalls) |-> TrueCalls[j].out_after]
    IN /\ nit.alive =>
            /\ nit.name_ptrs = handed
            /\ \A j, k \in 1..Len(handed) : j # k => handed[j] # handed[k]
            /\ \A j \in 1..Len(handed) : heap[handed[j]].frees = 0
            /\ free_log = <<>>
       /\ ~nit.alive =>
            /\ Len(free_log) = Len(handed) + 1
            /\ free_log[Len(free_log)] = 0
            /\ \A j \in 1..Len(handed) :
                  /\ heap[handed[j]].frees = 1
                  /\ Cardinality({k \in 1..Len(free_log) :
                                     free_log[k] = handed[j]}) = 1
            /\ \A q \in 1..Len(heap) : heap[q].frees = 1

(* An iterator that handed out three strings has been freed. *)
C7_Witness ==
    /\ ~nit.alive
    /\ Len(TrueCalls) = 3
    /\ Len(free_log) = 4

====
